---- MODULE Spec2Model ----
(***************************************************************************)
(* A model of src/src/server.ts: the Express application that serves the   *)
(* JSON-RPC endpoint POST /mcp and the event stream GET /sse behind the    *)
(* CORS middleware and the apiKeyAuth middleware.                          *)
(*                                                                         *)
(* JavaScript values are records [t, v]: t is the type tag and v a text    *)
(* payload (the string itself, the decimal rendering of a number, a label  *)
(* for an object).  A property whose value is undefined is left out by     *)
(* JSON.stringify, so in a response body "the key is present" is "the      *)
(* value is not Undefined".                                                *)
(*                                                                         *)
(* Node runs one callback at a time: a request's middleware chain and the  *)
(* synchronous part of its handler are not interleaved with those of       *)
(* another request.  Requests only overlap while one awaits                *)
(* handleToolCall, or while a stream connection stays open.                *)
(***************************************************************************)
EXTENDS Integers, Sequences, FiniteSets, TLC

VARIABLES
    MCP_API_KEY,  \* process.env.MCP_API_KEY, read once at startup
    alive,        \* FALSE once a failure escaped a handler (unhandled rejection)
    pc,           \* per request slot: where the request is in the pipeline
    req,          \* per slot: the inbound HTTP request
    res,          \* per slot: the HTTP response sent (NoResponse before)
    trace,        \* per slot: the stages the request went through, in order
    calls,        \* per slot: the handleToolCall invocations made for the request
    outcome,      \* per slot: how the awaited handleToolCall settled
    events,       \* per slot: what was written on the event stream
    timer,        \* per slot: the keep-alive interval timer
    client,       \* per slot: whether the client's connection is still there
    sent,         \* per slot: how many responses were sent for the request
    arrival       \* the slots of the requests in progress, in order of arrival

vars == <<MCP_API_KEY, alive, pc, req, res, trace, calls, outcome, events, timer,
          client, sent, arrival>>

-----------------------------------------------------------------------------
(* Bounds of the model *)

MaxReq == 2     \* request slots that may be open at the same time
MaxTicks == 2   \* keep-alive ticks modelled per stream connection

Slots == 1..MaxReq

-----------------------------------------------------------------------------
(* JavaScript values *)

Undefined == [t |-> "undefined", v |-> ""]
Null == [t |-> "null", v |-> ""]
Str(s) == [t |-> "string", v |-> s]
Num(s) == [t |-> "number", v |-> s]
Obj(s) == [t |-> "object", v |-> s]
\* an Error instance with the given message
Err(m) == [t |-> "Error", v |-> m]
\* an object with no toString/valueOf, e.g. Object.create(null)
NullProto == [t |-> "nullproto", v |-> ""]

\* ToBoolean
Truthy(x) ==
    ~ \/ x.t \in {"undefined", "null"}
      \/ x.t = "string" /\ x.v = ""
      \/ x.t = "number" /\ x.v = "0"

\* a || b
Or(a, b) == IF Truthy(a) THEN a ELSE b

\* String.prototype.startsWith and substring
startsWith(s, p) == Len(s) >= Len(p) /\ SubSeq(s, 1, Len(p)) = p
substring(s, n) == SubSeq(s, n + 1, Len(s))

\* String(x) is defined for every value but an object with no conversion to
\* a primitive, for which it throws a TypeError
CanString(x) == x.t # "nullproto"
StringOf(x) ==
    CASE x.t = "undefined" -> "undefined"
      [] x.t = "null" -> "null"
      [] x.t = "string" -> x.v
      [] x.t = "number" -> x.v
      [] x.t = "Error" -> "Error: " \o x.v
      [] OTHER -> "[object Object]"
StringTypeError == Err("Cannot convert object to primitive value")

\* error instanceof Error ? error.message : String(error); threw when String throws
ErrorData(error) ==
    IF error.t = "Error" THEN [threw |-> FALSE, value |-> Str(error.v)]
    ELSE IF CanString(error) THEN [threw |-> FALSE, value |-> Str(StringOf(error))]
    ELSE [threw |-> TRUE, value |-> StringTypeError]

-----------------------------------------------------------------------------
(* Requests and responses *)

NoParams == [t |-> "undefined", name |-> Undefined, arguments |-> Undefined]
NullParams == [t |-> "null", name |-> Undefined, arguments |-> Undefined]
Params(n, a) == [t |-> "object", name |-> n, arguments |-> a]
\* the {} of request.params || {}
EmptyParams == Params(Undefined, Undefined)
\* the {} of args || {}
EmptyObject == Obj("{}")

Envelope(j, i, m, p) == [jsonrpc |-> j, id |-> i, method |-> m, params |-> p]

Request(vb, pa, au, xk, qk, b) ==
    [verb |-> vb, path |-> pa, authorization |-> au, xApiKey |-> xk,
     apiKey |-> qk, body |-> b]

NoError == [code |-> 0, message |-> "", data |-> Undefined]
NoBody == [jsonrpc |-> Undefined, id |-> Undefined, result |-> Undefined, error |-> NoError]
NoResponse == [status |-> 0, type |-> "none", text |-> "", body |-> NoBody]

\* res.sendStatus(code): the status, and its message as a text body
StatusMessage(code) == IF code = 200 THEN "OK" ELSE "Error"
SendStatus(code) ==
    [status |-> code, type |-> "text", text |-> StatusMessage(code), body |-> NoBody]

\* res.status(s).json({jsonrpc: '2.0', id, result, error})
Json(s, i, r, e) ==
    [status |-> s, type |-> "json", text |-> "",
     body |-> [jsonrpc |-> Str("2.0"), id |-> i, result |-> r, error |-> e]]

HasResult(b) == b.result # Undefined
HasError(b) == b.error # NoError

NoRequest == Request("", "", Undefined, Undefined, Undefined,
                     Envelope(Undefined, Undefined, Undefined, NoParams))
NoOutcome == [kind |-> "none", value |-> Undefined]

\* the catalog imported from ./tools/tool-definitions.js
tools == Obj("[tool-definitions]")

-----------------------------------------------------------------------------
(* apiKeyAuth *)

apiKeyFromHeader(authHeader) ==
    IF authHeader.t = "string" /\ startsWith(authHeader.v, "Bearer ")
    THEN Str(substring(authHeader.v, 7))
    ELSE authHeader

\* the X-API-Key header looked at before the Authorization header
providedKeyHeaderFirst(q) == Or(Or(q.xApiKey, apiKeyFromHeader(q.authorization)), q.apiKey)

providedKey(q) == Or(Or(apiKeyFromHeader(q.authorization), q.xApiKey), q.apiKey)

Unauthorized == Json(401, Null, Undefined,
    [code |-> -32001, message |-> "Unauthorized: API key required", data |-> Undefined])
Forbidden == Json(403, Null, Undefined,
    [code |-> -32003, message |-> "Forbidden: Invalid API key", data |-> Undefined])

\* apiKeyAuth without the comparison with the secret
apiKeyAuthResultAnyKey(key, q) ==
    IF ~Truthy(key) THEN NoResponse
    ELSE IF ~Truthy(providedKey(q)) THEN Unauthorized
    ELSE NoResponse

\* apiKeyAuth that takes only an unset variable for "not configured"
apiKeyAuthResultUnsetOnly(key, q) ==
    IF key = Undefined THEN NoResponse
    ELSE IF ~Truthy(providedKey(q)) THEN Unauthorized
    ELSE IF providedKey(q) # key THEN Forbidden
    ELSE NoResponse

\* NoResponse stands for next()
apiKeyAuthResult(key, q) ==
    IF ~Truthy(key) THEN NoResponse
    ELSE IF ~Truthy(providedKey(q)) THEN Unauthorized
    ELSE IF providedKey(q) # key THEN Forbidden
    ELSE NoResponse

-----------------------------------------------------------------------------
(* POST /mcp *)

InvalidRequest(request) == Json(400, Or(request.id, Null), Undefined,
    [code |-> -32600, message |-> "Invalid Request", data |-> Undefined])

InitializeResult ==
    Obj("{protocolVersion:2024-11-05,capabilities:{tools:{}},serverInfo:{name:readwise-mcp-enhanced,version:1.0.0}}")

InvalidParams(request) == Json(200, request.id, Undefined,
    [code |-> -32602, message |-> "Invalid params: tool name is required", data |-> Undefined])

MethodNotFound(request) == Json(200, request.id, Undefined,
    [code |-> -32601, message |-> "Method not found", data |-> Undefined])

InternalError(s, i, d) == Json(s, i, Undefined,
    [code |-> -32603, message |-> "Internal error", data |-> d])

\* an envelope check that only asks for the tag to be there
EnvelopeRejectedIfAbsent(request) == ~Truthy(request.jsonrpc)

\* the envelope check of the handler
EnvelopeRejected(request) == ~Truthy(request.jsonrpc) \/ request.jsonrpc # Str("2.0")

\* a dispatch that takes a request without method for the handshake
DispatchDefault(method) ==
    IF method = Str("initialize") \/ method = Undefined THEN "initialize"
    ELSE IF method = Str("tools/list") THEN "tools/list"
    ELSE IF method = Str("tools/call") THEN "tools/call"
    ELSE "unknown"

\* the if / else if chain over request.method
Dispatch(method) ==
    IF method = Str("initialize") THEN "initialize"
    ELSE IF method = Str("tools/list") THEN "tools/list"
    ELSE IF method = Str("tools/call") THEN "tools/call"
    ELSE "unknown"

\* const { name, arguments: args } = request.params || {}
Destructured(request) ==
    IF request.params.t = "object" THEN request.params ELSE EmptyParams

\* a name check that only refuses a name that is not there
NameMissingIfAbsent(name) == name = Undefined

\* if (!name)
NameMissing(name) == ~Truthy(name)

\* args || {}
Forwarded(args) == Or(args, EmptyObject)

\* an initialize branch that answers with the version the client asks for
McpSyncNegotiated(request) ==
    IF EnvelopeRejected(request)
    THEN [await |-> FALSE, response |-> InvalidRequest(request),
          stages |-> <<"validate">>, name |-> Undefined, args |-> Undefined]
    ELSE IF Dispatch(request.method) = "initialize"
    THEN [await |-> FALSE, response |-> Json(200, request.id,
                                  IF request.params.t = "object"
                                  THEN Obj("{protocolVersion:requested}")
                                  ELSE InitializeResult, NoError),
          stages |-> <<"validate", "route">>, name |-> Undefined, args |-> Undefined]
    ELSE IF Dispatch(request.method) = "tools/list"
    THEN [await |-> FALSE, response |-> Json(200, request.id, tools, NoError),
          stages |-> <<"validate", "route">>, name |-> Undefined, args |-> Undefined]
    ELSE IF Dispatch(request.method) = "tools/call"
    THEN IF NameMissing(Destructured(request).name)
         THEN [await |-> FALSE, response |-> InvalidParams(request),
               stages |-> <<"validate", "route">>, name |-> Undefined, args |-> Undefined]
         ELSE [await |-> TRUE, response |-> NoResponse,
               stages |-> <<"validate", "route", "bridge">>,
               name |-> Destructured(request).name,
               args |-> Forwarded(Destructured(request).arguments)]
    ELSE [await |-> FALSE, response |-> MethodNotFound(request),
          stages |-> <<"validate", "route">>, name |-> Undefined, args |-> Undefined]

\* The synchronous part of the handler: the response it sends, or the call it
\* awaits.  stages lists the components the request went through.
McpSync(request) ==
    IF EnvelopeRejected(request)
    THEN [await |-> FALSE, response |-> InvalidRequest(request),
          stages |-> <<"validate">>, name |-> Undefined, args |-> Undefined]
    ELSE IF Dispatch(request.method) = "initialize"
    THEN [await |-> FALSE, response |-> Json(200, request.id, InitializeResult, NoError),
          stages |-> <<"validate", "route">>, name |-> Undefined, args |-> Undefined]
    ELSE IF Dispatch(request.method) = "tools/list"
    THEN [await |-> FALSE, response |-> Json(200, request.id, tools, NoError),
          stages |-> <<"validate", "route">>, name |-> Undefined, args |-> Undefined]
    ELSE IF Dispatch(request.method) = "tools/call"
    THEN IF NameMissing(Destructured(request).name)
         THEN [await |-> FALSE, response |-> InvalidParams(request),
               stages |-> <<"validate", "route">>, name |-> Undefined, args |-> Undefined]
         ELSE [await |-> TRUE, response |-> NoResponse,
               stages |-> <<"validate", "route", "bridge">>,
               name |-> Destructured(request).name,
               args |-> Forwarded(Destructured(request).arguments)]
    ELSE [await |-> FALSE, response |-> MethodNotFound(request),
          stages |-> <<"validate", "route">>, name |-> Undefined, args |-> Undefined]

\* the outer catch of the handler
OuterCatch(request, error) ==
    IF ErrorData(error).threw
    THEN [escaped |-> TRUE, response |-> NoResponse]
    ELSE [escaped |-> FALSE,
          response |-> InternalError(500, Or(request.id, Null), ErrorData(error).value)]

\* the catch around await handleToolCall
BridgeCatch(request, error) ==
    IF ErrorData(error).threw
    THEN OuterCatch(request, ErrorData(error).value)
    ELSE [escaped |-> FALSE,
          response |-> InternalError(200, request.id, ErrorData(error).value)]

\* a bridge that answers null for a call that returned nothing
McpResumeNullResult(request, o) ==
    IF o.kind = "return"
    THEN [escaped |-> FALSE, response |-> Json(200, request.id, Or(o.value, Null), NoError)]
    ELSE BridgeCatch(request, o.value)

\* The handler from the point where the awaited call settled, to res.json
McpResume(request, o) ==
    IF o.kind = "return"
    THEN [escaped |-> FALSE, response |-> Json(200, request.id, o.value, NoError)]
    ELSE BridgeCatch(request, o.value)

-----------------------------------------------------------------------------
(* The pipeline of one request *)

\* the slots whose callback is running now
Running == {s \in Slots : pc[s] \in {"cors", "auth", "handler", "settled"}}

\* a new callback starts only when the running one has returned
LoopFree == alive /\ Running = {}

Set(f, r, x) == [f EXCEPT ![r] = x]
\* a sequence of slots without slot r
Without(seq, r) == SelectSeq(seq, LAMBDA s : s # r)

\* A request arrives on a free slot and enters the middleware chain
Receive(r, q) ==
    /\ LoopFree
    /\ pc[r] = "idle"
    /\ pc' = Set(pc, r, "cors")
    /\ req' = Set(req, r, q)
    /\ client' = Set(client, r, "connected")
    /\ arrival' = Append(arrival, r)
    /\ UNCHANGED <<MCP_API_KEY, alive, res, trace, calls, outcome, events, timer, sent>>

\* The exchange is over: its request and response objects are dropped, and
\* the slot is free for the next request
Release(r) ==
    /\ alive
    /\ pc[r] \in {"done", "closed"}
    /\ pc' = Set(pc, r, "idle")
    /\ req' = Set(req, r, NoRequest)
    /\ res' = Set(res, r, NoResponse)
    /\ trace' = Set(trace, r, <<>>)
    /\ calls' = Set(calls, r, <<>>)
    /\ outcome' = Set(outcome, r, NoOutcome)
    /\ events' = Set(events, r, <<>>)
    /\ timer' = Set(timer, r, "none")
    /\ client' = Set(client, r, "none")
    /\ sent' = Set(sent, r, 0)
    /\ arrival' = Without(arrival, r)
    /\ UNCHANGED <<MCP_API_KEY, alive>>

\* a middleware that answers OPTIONS and calls next() all the same
CorsMiddlewareNext(r) ==
    /\ alive
    /\ pc[r] = "cors"
    /\ trace' = Set(trace, r, Append(trace[r], "cors"))
    /\ IF req[r].verb = "OPTIONS"
       THEN /\ res' = Set(res, r, SendStatus(200))
            /\ sent' = Set(sent, r, sent[r] + 1)
            /\ pc' = Set(pc, r, "auth")
       ELSE /\ pc' = Set(pc, r, "auth")
            /\ UNCHANGED <<res, sent>>
    /\ UNCHANGED <<MCP_API_KEY, alive, req, calls, outcome, events, timer, client, arrival>>

\* The CORS middleware: OPTIONS is answered by res.sendStatus(200)
CorsMiddleware(r) ==
    /\ alive
    /\ pc[r] = "cors"
    /\ trace' = Set(trace, r, Append(trace[r], "cors"))
    /\ IF req[r].verb = "OPTIONS"
       THEN /\ res' = Set(res, r, SendStatus(200))
            /\ sent' = Set(sent, r, sent[r] + 1)
            /\ pc' = Set(pc, r, "done")
       ELSE /\ pc' = Set(pc, r, "auth")
            /\ UNCHANGED <<res, sent>>
    /\ UNCHANGED <<MCP_API_KEY, alive, req, calls, outcome, events, timer, client, arrival>>

\* a gate that answers a denied request and calls next() all the same
apiKeyAuthNext(r) ==
    /\ alive
    /\ pc[r] = "auth"
    /\ trace' = Set(trace, r, Append(trace[r], "auth"))
    /\ res' = Set(res, r, apiKeyAuthResult(MCP_API_KEY, req[r]))
    /\ pc' = Set(pc, r, "handler")
    /\ sent' = Set(sent, r, IF apiKeyAuthResult(MCP_API_KEY, req[r]) = NoResponse
                            THEN sent[r] ELSE sent[r] + 1)
    /\ UNCHANGED <<MCP_API_KEY, alive, req, calls, outcome, events, timer, client, arrival>>

\* The apiKeyAuth middleware, mounted on POST /mcp and GET /sse
apiKeyAuth(r) ==
    /\ alive
    /\ pc[r] = "auth"
    /\ trace' = Set(trace, r, Append(trace[r], "auth"))
    /\ res' = Set(res, r, apiKeyAuthResult(MCP_API_KEY, req[r]))
    /\ pc' = Set(pc, r, IF apiKeyAuthResult(MCP_API_KEY, req[r]) = NoResponse
                        THEN "handler" ELSE "done")
    /\ sent' = Set(sent, r, IF apiKeyAuthResult(MCP_API_KEY, req[r]) = NoResponse
                            THEN sent[r] ELSE sent[r] + 1)
    /\ UNCHANGED <<MCP_API_KEY, alive, req, calls, outcome, events, timer, client, arrival>>

\* a handler that takes the requests one by one, the oldest in progress first
McpHandlerQueued(r) ==
    /\ alive
    /\ pc[r] = "handler"
    /\ req[r].path = "/mcp"
    /\ r = Head(arrival)
    /\ LET h == McpSync(req[r].body) IN
        /\ trace' = Set(trace, r, trace[r] \o h.stages)
        /\ res' = Set(res, r, h.response)
        /\ pc' = Set(pc, r, IF h.await THEN "await" ELSE "done")
        /\ calls' = Set(calls, r, IF h.await
                                  THEN Append(calls[r], [name |-> h.name, args |-> h.args])
                                  ELSE calls[r])
        /\ sent' = Set(sent, r, IF h.await THEN sent[r] ELSE sent[r] + 1)
    /\ UNCHANGED <<MCP_API_KEY, alive, req, outcome, events, timer, client, arrival>>

\* a handler that waits for the call in progress before it starts its own
McpHandlerSerial(r) ==
    /\ alive
    /\ pc[r] = "handler"
    /\ req[r].path = "/mcp"
    /\ \A s \in Slots : pc[s] # "await"
    /\ LET h == McpSync(req[r].body) IN
        /\ trace' = Set(trace, r, trace[r] \o h.stages)
        /\ res' = Set(res, r, h.response)
        /\ pc' = Set(pc, r, IF h.await THEN "await" ELSE "done")
        /\ calls' = Set(calls, r, IF h.await
                                  THEN Append(calls[r], [name |-> h.name, args |-> h.args])
                                  ELSE calls[r])
        /\ sent' = Set(sent, r, IF h.await THEN sent[r] ELSE sent[r] + 1)
    /\ UNCHANGED <<MCP_API_KEY, alive, req, outcome, events, timer, client, arrival>>

\* The handler of POST /mcp up to its response or to await handleToolCall
McpHandler(r) ==
    /\ alive
    /\ pc[r] = "handler"
    /\ req[r].path = "/mcp"
    /\ LET h == McpSync(req[r].body) IN
        /\ trace' = Set(trace, r, trace[r] \o h.stages)
        /\ res' = Set(res, r, h.response)
        /\ pc' = Set(pc, r, IF h.await THEN "await" ELSE "done")
        /\ calls' = Set(calls, r, IF h.await
                                  THEN Append(calls[r], [name |-> h.name, args |-> h.args])
                                  ELSE calls[r])
        /\ sent' = Set(sent, r, IF h.await THEN sent[r] ELSE sent[r] + 1)
    /\ UNCHANGED <<MCP_API_KEY, alive, req, outcome, events, timer, client, arrival>>

\* handleToolCall settles: its promise resolves with a value or rejects
CollaboratorSettles(r, o) ==
    /\ LoopFree
    /\ pc[r] = "await"
    /\ outcome' = Set(outcome, r, o)
    /\ pc' = Set(pc, r, "settled")
    /\ UNCHANGED <<MCP_API_KEY, alive, req, res, trace, calls, events, timer,
                   client, sent, arrival>>

\* a continuation that reads the request from a variable the handlers share:
\* it holds the oldest request in progress
McpContinueShared(r) ==
    /\ alive
    /\ pc[r] = "settled"
    /\ LET h == McpResume(req[Head(arrival)].body, outcome[r]) IN
        /\ res' = Set(res, r, h.response)
        /\ alive' = ~h.escaped
        /\ sent' = Set(sent, r, IF h.escaped THEN sent[r] ELSE sent[r] + 1)
    /\ pc' = Set(pc, r, "done")
    /\ UNCHANGED <<MCP_API_KEY, req, trace, calls, outcome, events, timer, client, arrival>>

\* The handler resumes after the await and answers
McpContinue(r) ==
    /\ alive
    /\ pc[r] = "settled"
    /\ LET h == McpResume(req[r].body, outcome[r]) IN
        /\ res' = Set(res, r, h.response)
        /\ alive' = ~h.escaped
        /\ sent' = Set(sent, r, IF h.escaped THEN sent[r] ELSE sent[r] + 1)
    /\ pc' = Set(pc, r, "done")
    /\ UNCHANGED <<MCP_API_KEY, req, trace, calls, outcome, events, timer, client, arrival>>

\* a close listener that gives the request up when its client goes away
ClientDisconnectAbort(r) ==
    /\ LoopFree
    /\ pc[r] = "await"
    /\ client[r] = "connected"
    /\ client' = Set(client, r, "gone")
    /\ pc' = Set(pc, r, "done")
    /\ UNCHANGED <<MCP_API_KEY, alive, req, res, trace, calls, outcome, events, timer,
                   sent, arrival>>

\* The client of a request that awaits handleToolCall goes away.  The handler
\* of POST /mcp listens to no close event: nothing of the request changes.
ClientDisconnect(r) ==
    /\ LoopFree
    /\ pc[r] = "await"
    /\ client[r] = "connected"
    /\ client' = Set(client, r, "gone")
    /\ UNCHANGED <<MCP_API_KEY, alive, pc, req, res, trace, calls, outcome, events, timer,
                   sent, arrival>>

-----------------------------------------------------------------------------
(* GET /sse *)

\* The handler: headers, the connection event, the interval timer
SseHandler(r) ==
    /\ alive
    /\ pc[r] = "handler"
    /\ req[r].path = "/sse"
    /\ res' = Set(res, r, [status |-> 200, type |-> "event-stream", text |-> "",
                           body |-> NoBody])
    /\ sent' = Set(sent, r, sent[r] + 1)
    /\ events' = Set(events, r, Append(events[r], "connection"))
    /\ timer' = Set(timer, r, "active")
    /\ trace' = Set(trace, r, Append(trace[r], "stream"))
    /\ pc' = Set(pc, r, "open")
    /\ UNCHANGED <<MCP_API_KEY, alive, req, calls, outcome, client, arrival>>

\* The interval callback
KeepAlive(r) ==
    /\ LoopFree
    /\ timer[r] = "active"
    /\ Len(events[r]) <= MaxTicks
    /\ events' = Set(events, r, Append(events[r], "keepalive"))
    /\ UNCHANGED <<MCP_API_KEY, alive, pc, req, res, trace, calls, outcome, timer,
                   client, sent, arrival>>

\* a close handler that ends the response and leaves the timer running
SseCloseLeak(r) ==
    /\ LoopFree
    /\ pc[r] = "open"
    /\ pc' = Set(pc, r, "closed")
    /\ client' = Set(client, r, "gone")
    /\ UNCHANGED <<MCP_API_KEY, alive, req, res, trace, calls, outcome, events, timer,
                   sent, arrival>>

\* a close handler over one interval timer shared by all connections
SseCloseShared(r) ==
    /\ LoopFree
    /\ pc[r] = "open"
    /\ timer' = [s \in Slots |-> IF s = r \/ timer[s] = "active" THEN "cleared" ELSE timer[s]]
    /\ pc' = Set(pc, r, "closed")
    /\ client' = Set(client, r, "gone")
    /\ UNCHANGED <<MCP_API_KEY, alive, req, res, trace, calls, outcome, events,
                   sent, arrival>>

\* The close handler of the request: clearInterval and res.end()
SseClose(r) ==
    /\ LoopFree
    /\ pc[r] = "open"
    /\ timer' = Set(timer, r, "cleared")
    /\ pc' = Set(pc, r, "closed")
    /\ client' = Set(client, r, "gone")
    /\ UNCHANGED <<MCP_API_KEY, alive, req, res, trace, calls, outcome, events,
                   sent, arrival>>

\* Opening, Open, Closed of a stream connection
StreamState(r) ==
    IF req[r].path # "/sse" THEN "none"
    ELSE IF pc[r] \in {"cors", "auth", "handler"} THEN "Opening"
    ELSE IF pc[r] = "open" THEN "Open"
    ELSE IF pc[r] = "closed" THEN "Closed"
    ELSE "none"

-----------------------------------------------------------------------------
(* Inputs *)

Secret == "s3cret"
Wrong == "wrong"

\* what handleToolCall may resolve with, and what it may reject with
Returned == {Obj("{content:[r1]}"), Obj("{content:[r2]}"), Null, Undefined}
Thrown == {Err("boom"), Err(""), Str("oops"), Undefined, Obj("{code:1}"), NullProto}
Outcomes == {[kind |-> "return", value |-> x] : x \in Returned}
            \cup {[kind |-> "throw", value |-> x] : x \in Thrown}

Ids == {Undefined, Null, Num("0"), Num("7"), Str(""), Str("a")}
Tags == {Undefined, Str("2.0"), Str("1.0"), Num("2")}
Names == {Undefined, Str(""), Str("X")}
Arguments == {Undefined, Null, Num("0"), Obj("{}"), Obj("{q:1}")}
CallParams == {NoParams, NullParams} \cup {Params(n, a) : n \in Names, a \in Arguments}
OtherMethods == {Undefined, Str("initialize"), Str("tools/list"), Str("ping"), Str("Initialize")}

Envelopes ==
    {Envelope(j, i, m, p) : j \in Tags, i \in Ids, m \in OtherMethods,
                            p \in {NoParams, Params(Str("X"), Obj("{q:1}"))}}
    \cup {Envelope(j, i, Str("tools/call"), p) : j \in Tags, i \in Ids, p \in CallParams}

\* POST /mcp with every envelope: no credential, the secret, a wrong key
RpcCredentials ==
    {<<Undefined, Undefined>>, <<Str("Bearer " \o Secret), Undefined>>, <<Undefined, Str(Wrong)>>}
RpcRequests ==
    {Request("POST", "/mcp", c[1], c[2], Undefined, b) : c \in RpcCredentials, b \in Envelopes}

\* every credential in the three places, on each route, with a few envelopes
AuthorizationValues ==
    {Undefined, Str(""), Str("Bearer "), Str("Bearer " \o Secret), Str("Bearer " \o Wrong),
     Str(Secret), Str(Wrong), Str("bearer " \o Secret)}
HeaderValues == {Undefined, Str(""), Str(Secret), Str(Wrong)}
\* ?apiKey=a&apiKey=b parses to an array
QueryValues == HeaderValues \cup {Obj("[" \o Secret \o "]")}
Routes ==
    {<<"POST", "/mcp">>, <<"GET", "/sse">>,
     <<"OPTIONS", "/mcp">>, <<"OPTIONS", "/sse">>, <<"OPTIONS", "/other">>}
AuthEnvelopes ==
    {Envelope(Str("2.0"), Num("7"), Str("tools/list"), NoParams),
     Envelope(Undefined, Num("7"), Str("tools/call"), Params(Str("X"), Undefined))}
AuthRequests ==
    {Request(rt[1], rt[2], au, xk, qk, b) :
        rt \in Routes, au \in AuthorizationValues, xk \in HeaderValues,
        qk \in QueryValues, b \in AuthEnvelopes}

\* stream connections
SseRequests ==
    {Request("GET", "/sse", au, Undefined, Undefined,
             Envelope(Undefined, Undefined, Undefined, NoParams)) :
        au \in {Undefined, Str("Bearer " \o Secret)}}

-----------------------------------------------------------------------------
(* Specifications *)

InitWith(keys) ==
    /\ MCP_API_KEY \in keys
    /\ alive = TRUE
    /\ pc = [r \in Slots |-> "idle"]
    /\ req = [r \in Slots |-> NoRequest]
    /\ res = [r \in Slots |-> NoResponse]
    /\ trace = [r \in Slots |-> <<>>]
    /\ calls = [r \in Slots |-> <<>>]
    /\ outcome = [r \in Slots |-> NoOutcome]
    /\ events = [r \in Slots |-> <<>>]
    /\ timer = [r \in Slots |-> "none"]
    /\ client = [r \in Slots |-> "none"]
    /\ sent = [r \in Slots |-> 0]
    /\ arrival = <<>>

\* The JSON-RPC endpoint, one request after the other
Init == InitWith({Undefined, Str(Secret)})
ReceiveRpc == \E q \in RpcRequests : Receive(1, q)
Next ==
    \/ ReceiveRpc
    \/ \E r \in Slots : CorsMiddleware(r)
    \/ \E r \in Slots : apiKeyAuth(r)
    \/ \E r \in Slots : McpHandler(r)
    \/ \E r \in Slots, o \in Outcomes : CollaboratorSettles(r, o)
    \/ \E r \in Slots : McpContinue(r)
    \/ \E r \in Slots : Release(r)
Spec == Init /\ [][Next]_vars

\* The middleware chain on every route, with every credential
InitAuth == InitWith({Undefined, Str(""), Str(Secret)})
ReceiveAuth == \E q \in AuthRequests : Receive(1, q)
NextAuth ==
    \/ ReceiveAuth
    \/ \E r \in Slots : CorsMiddleware(r)
    \/ \E r \in Slots : apiKeyAuth(r)
    \/ \E r \in Slots : McpHandler(r)
    \/ \E r \in Slots : SseHandler(r)
    \/ \E r \in Slots : KeepAlive(r)
    \/ \E r \in Slots : SseClose(r)
    \/ \E r \in Slots : Release(r)
SpecAuth == InitAuth /\ [][NextAuth]_vars

\* Stream connections side by side
InitSse == InitWith({Undefined, Str(Secret)})
ReceiveSse == \E r \in Slots, q \in SseRequests : Receive(r, q)
NextSse ==
    \/ ReceiveSse
    \/ \E r \in Slots : CorsMiddleware(r)
    \/ \E r \in Slots : apiKeyAuth(r)
    \/ \E r \in Slots : SseHandler(r)
    \/ \E r \in Slots : KeepAlive(r)
    \/ \E r \in Slots : SseClose(r)
    \/ \E r \in Slots : Release(r)
SpecSse == InitSse /\ [][NextSse]_vars

\* Requests to POST /mcp side by side, with a secret configured
ConcOutcomes ==
    {[kind |-> "return", value |-> Obj("{content:[r1]}")],
     [kind |-> "return", value |-> Obj("{content:[r2]}")],
     [kind |-> "throw", value |-> Err("boom")]}
ConcRequests ==
    {Request("POST", "/mcp", Str("Bearer " \o Secret), Undefined, Undefined, b) :
        b \in {Envelope(Str("2.0"), Num("1"), Str("tools/call"), Params(Str("X"), Obj("{q:1}"))),
               Envelope(Str("2.0"), Num("2"), Str("tools/call"), Params(Str("X"), Obj("{q:1}"))),
               Envelope(Str("2.0"), Num("2"), Str("tools/call"), Params(Str("Y"), Undefined)),
               Envelope(Str("2.0"), Num("3"), Str("initialize"), NoParams),
               Envelope(Str("1.0"), Num("0"), Str("tools/call"), Params(Str("X"), Undefined))}}
    \cup {Request("POST", "/mcp", Undefined, Undefined, Undefined,
                  Envelope(Str("2.0"), Num("7"), Str("tools/call"), Params(Str("X"), Undefined)))}
InitConc == InitWith({Str(Secret)})
ReceiveConc == \E r \in Slots, q \in ConcRequests : Receive(r, q)
NextConc ==
    \/ ReceiveConc
    \/ \E r \in Slots : CorsMiddleware(r)
    \/ \E r \in Slots : apiKeyAuth(r)
    \/ \E r \in Slots : McpHandler(r)
    \/ \E r \in Slots, o \in ConcOutcomes : CollaboratorSettles(r, o)
    \/ \E r \in Slots : McpContinue(r)
    \/ \E r \in Slots : ClientDisconnect(r)
    \/ \E r \in Slots : Release(r)
SpecConc == InitConc /\ [][NextConc]_vars

\* The event loop runs every callback that is ready: the middlewares, the
\* handler and its continuation.  Nothing makes handleToolCall settle.
Scheduling ==
    \A r \in Slots :
        /\ WF_vars(CorsMiddleware(r))
        /\ WF_vars(apiKeyAuth(r))
        /\ WF_vars(McpHandler(r))
        /\ WF_vars(McpContinue(r))
\* one request of each kind: a call, an initialize, one the validator rejects
\* and one the gate denies
LiveOutcomes ==
    {[kind |-> "return", value |-> Obj("{content:[r1]}")],
     [kind |-> "throw", value |-> Err("boom")]}
LiveRequests ==
    {Request("POST", "/mcp", Str("Bearer " \o Secret), Undefined, Undefined, b) :
        b \in {Envelope(Str("2.0"), Num("1"), Str("tools/call"), Params(Str("X"), Obj("{q:1}"))),
               Envelope(Str("2.0"), Num("3"), Str("initialize"), NoParams),
               Envelope(Str("1.0"), Num("0"), Str("tools/call"), Params(Str("X"), Undefined))}}
    \cup {Request("POST", "/mcp", Undefined, Undefined, Undefined,
                  Envelope(Str("2.0"), Num("7"), Str("tools/call"), Params(Str("X"), Undefined)))}
ReceiveLive == \E r \in Slots, q \in LiveRequests : Receive(r, q)
NextLive ==
    \/ ReceiveLive
    \/ \E r \in Slots : CorsMiddleware(r)
    \/ \E r \in Slots : apiKeyAuth(r)
    \/ \E r \in Slots : McpHandler(r)
    \/ \E r \in Slots, o \in LiveOutcomes : CollaboratorSettles(r, o)
    \/ \E r \in Slots : McpContinue(r)
    \/ \E r \in Slots : Release(r)
SpecLive == InitConc /\ [][NextLive]_vars /\ Scheduling

\* A call and a stream connection whose clients may go away
GoneRequests ==
    {Request("POST", "/mcp", Str("Bearer " \o Secret), Undefined, Undefined,
             Envelope(Str("2.0"), Num("1"), Str("tools/call"), Params(Str("X"), Obj("{q:1}")))),
     Request("GET", "/sse", Str("Bearer " \o Secret), Undefined, Undefined,
             Envelope(Undefined, Undefined, Undefined, NoParams))}
InitGone == InitWith({Str(Secret)})
ReceiveGone == \E r \in Slots, q \in GoneRequests : Receive(r, q)
NextGone ==
    \/ ReceiveGone
    \/ \E r \in Slots : CorsMiddleware(r)
    \/ \E r \in Slots : apiKeyAuth(r)
    \/ \E r \in Slots : McpHandler(r)
    \/ \E r \in Slots, o \in ConcOutcomes : CollaboratorSettles(r, o)
    \/ \E r \in Slots : McpContinue(r)
    \/ \E r \in Slots : ClientDisconnect(r)
    \/ \E r \in Slots : SseHandler(r)
    \/ \E r \in Slots : KeepAlive(r)
    \/ \E r \in Slots : SseClose(r)
    \/ \E r \in Slots : Release(r)
SpecGone == InitGone /\ [][NextGone]_vars

-----------------------------------------------------------------------------
(* What the claims speak of *)

\* a shared secret is configured: the variable is set and not empty
Configured == MCP_API_KEY # Undefined /\ MCP_API_KEY # Str("")

\* the three places of a credential, in the order of precedence
Candidates(q) == <<apiKeyFromHeader(q.authorization), q.xApiKey, q.apiKey>>
NonEmpty(c) == c # Undefined /\ c # Str("")
\* the provided credential: the first candidate that is not empty
Credential(q) ==
    IF NonEmpty(Candidates(q)[1]) THEN Candidates(q)[1]
    ELSE IF NonEmpty(Candidates(q)[2]) THEN Candidates(q)[2]
    ELSE IF NonEmpty(Candidates(q)[3]) THEN Candidates(q)[3]
    ELSE Undefined

Gated(r) == req[r].verb \in {"POST", "GET"}
\* the gate has decided on the request of slot r
AuthDone(r) == Gated(r) /\ Len(trace[r]) >= 2
\* the request went on to its route handler
PassedGate(r) == AuthDone(r) /\ (pc[r] = "handler" \/ Len(trace[r]) > 2)
Denied(r, status, code) ==
    /\ pc[r] = "done"
    /\ trace[r] = <<"cors", "auth">>
    /\ res[r].status = status
    /\ res[r].type = "json"
    /\ res[r].body.error.code = code
    /\ res[r].body.result = Undefined
    /\ calls[r] = <<>>
    /\ events[r] = <<>>

\* C1: with a secret configured, a request to POST /mcp or GET /sse with no
\* credential in any of the three places is answered 401 with code -32001, one
\* whose credential differs from the secret is answered 403 with code -32003,
\* and a request goes on to its route only with a credential equal to the secret.
C1_AuthGate ==
    \A r \in Slots :
        (Configured /\ AuthDone(r)) =>
            /\ Credential(req[r]) = Undefined => Denied(r, 401, -32001)
            /\ (Credential(req[r]) # Undefined /\ Credential(req[r]) # MCP_API_KEY)
                   => Denied(r, 403, -32003)
            /\ PassedGate(r) <=> Credential(req[r]) = MCP_API_KEY

\* a request whose Authorization value is the secret behind a lower-case
\* "bearer " was refused
C1_Witness ==
    \E r \in Slots :
        /\ Configured
        /\ req[r].authorization = Str("bearer " \o Secret)
        /\ Denied(r, 403, -32003)

\* C3: with no secret configured, the gate lets every request through,
\* whatever its credentials, and no response carries -32001 or -32003.
C3_FailOpen ==
    \A r \in Slots :
        ~Configured =>
            /\ AuthDone(r) => PassedGate(r)
            /\ res[r].body.error.code \notin {-32001, -32003}
            /\ res[r].status \notin {401, 403}

\* the variable is set to the empty string, and a request with a credential
\* in the query only went through
C3_Witness ==
    \E r \in Slots :
        /\ MCP_API_KEY = Str("")
        /\ req[r].authorization = Undefined
        /\ req[r].apiKey = Str(Wrong)
        /\ PassedGate(r)

-----------------------------------------------------------------------------
(* POST /mcp: what the claims speak of *)

Stages == <<"cors", "auth", "validate", "route", "bridge">>
IsPrefix(a, b) == Len(a) <= Len(b) /\ a = SubSeq(b, 1, Len(a))
Reached(r, stage) == \E i \in 1..Len(trace[r]) : trace[r][i] = stage

\* the protocol tag is there and is the string "2.0"
ValidTag(request) == request.jsonrpc = Str("2.0")
\* the request of slot r has been answered
Answered(r) == pc[r] = "done" /\ res[r] # NoResponse
\* the handler of POST /mcp has answered the request of slot r
Handled(r) == Answered(r) /\ Reached(r, "validate")
\* the params carry a name that is not empty
Named(request) ==
    /\ request.params.t = "object"
    /\ request.params.name # Undefined
    /\ request.params.name # Str("")
\* a tools/call whose awaited call settled and that has been answered
Called(r) == Handled(r) /\ outcome[r].kind # "none"

\* C2: with a secret configured, every request passes the gate, then the
\* validator, then the router, then the bridge, in this order; handleToolCall
\* is invoked only for a request the gate allowed and the validator accepted;
\* a request the gate denied gets the gate's error, also when its envelope is
\* malformed, and a rejected envelope is not routed.
C2_Order ==
    \A r \in Slots :
        Configured =>
            /\ IsPrefix(trace[r], Stages)
            /\ Len(calls[r]) <= 1
            /\ (calls[r] # <<>> \/ Reached(r, "bridge")) =>
                   /\ trace[r] = Stages
                   /\ Credential(req[r]) = MCP_API_KEY
                   /\ ValidTag(req[r].body)
                   /\ Len(calls[r]) = 1
            /\ (AuthDone(r) /\ Credential(req[r]) # MCP_API_KEY) =>
                   /\ trace[r] = <<"cors", "auth">>
                   /\ res[r].body.error.code \in {-32001, -32003}
                   /\ calls[r] = <<>>
            /\ (Reached(r, "validate") /\ ~ValidTag(req[r].body)) =>
                   /\ trace[r] = <<"cors", "auth", "validate">>
                   /\ calls[r] = <<>>

\* with a secret configured, a call has reached handleToolCall
C2_Witness ==
    \E r \in Slots :
        /\ Configured
        /\ pc[r] = "await"
        /\ calls[r] # <<>>
        /\ trace[r] = Stages

\* C4: an envelope that passed the gate and whose tag is missing, of the wrong
\* type or not "2.0" is answered with code -32600 and with the id it carries,
\* whatever that id is, null only when it carries none; it is not routed.
C4_InvalidRequestEchoesId ==
    \A r \in Slots :
        (Handled(r) /\ ~ValidTag(req[r].body)) =>
            /\ res[r].body.error.code = -32600
            /\ res[r].body.id = IF req[r].body.id # Undefined THEN req[r].body.id ELSE Null
            /\ ~Reached(r, "route")

\* C5: a valid envelope with method tools/call whose params carry no name or
\* an empty one (or that has no params) is answered with code -32602, and
\* handleToolCall is not invoked for it.
C5_MissingName ==
    \A r \in Slots :
        /\ (Handled(r) /\ ValidTag(req[r].body) /\ req[r].body.method = Str("tools/call")
                /\ ~Named(req[r].body)) =>
               /\ res[r].body.error.code = -32602
               /\ res[r].body.result = Undefined
               /\ calls[r] = <<>>
               /\ outcome[r] = NoOutcome
        /\ (ValidTag(req[r].body) /\ req[r].body.method = Str("tools/call")
                /\ ~Named(req[r].body)) => (calls[r] = <<>> /\ pc[r] # "await")

\* a tools/call with params null was answered -32602
C5_Witness ==
    \E r \in Slots :
        /\ Handled(r)
        /\ ValidTag(req[r].body)
        /\ req[r].body.method = Str("tools/call")
        /\ req[r].body.params = NullParams
        /\ res[r].body.error.code = -32602

\* C6: when the call of a tools/call with a name fails in any way, the
\* response is HTTP 200 with code -32603, message "Internal error" and a string
\* rendering of the failure as data, and the failure does not escape.
C6_FailureMapped ==
    \A r \in Slots :
        /\ alive
        /\ (Called(r) /\ outcome[r].kind = "throw") =>
               /\ res[r].status = 200
               /\ res[r].body.error.code = -32603
               /\ res[r].body.error.message = "Internal error"
               /\ res[r].body.error.data.t = "string"
               /\ res[r].body.id = req[r].body.id

\* C7: every response of POST /mcp carries exactly one of result and error.
C7_ResultXorError ==
    \A r \in Slots :
        (Answered(r) /\ req[r].verb = "POST" /\ req[r].path = "/mcp") =>
            /\ res[r].type = "json"
            /\ HasResult(res[r].body) # HasError(res[r].body)

\* C8 as stated: when the call of a tools/call with a name succeeds, the result
\* of the response is the value returned, and handleToolCall received the name
\* and the arguments of the params as they are.
C8_PassthroughAsStated ==
    \A r \in Slots :
        (Called(r) /\ outcome[r].kind = "return") =>
            /\ res[r].body.result = outcome[r].value
            /\ calls[r] = <<[name |-> req[r].body.params.name,
                             args |-> req[r].body.params.arguments]>>

\* a value that is false as a condition: no arguments, null, 0, ""
Falsy(x) == x \in {Undefined, Null, Num("0"), Str("")}

\* C8 as amended: when the call of a tools/call with a name succeeds, the result
\* of the response is the value returned, with status 200 and no error, and
\* handleToolCall was called once, with the name of the params and with their
\* arguments, or with an empty object when the arguments are absent or falsy.
C8_Passthrough ==
    \A r \in Slots :
        /\ (Called(r) /\ outcome[r].kind = "return") =>
               /\ res[r].status = 200
               /\ res[r].body.result = outcome[r].value
               /\ res[r].body.error = NoError
               /\ res[r].body.id = req[r].body.id
        /\ calls[r] # <<>> =>
               /\ Len(calls[r]) = 1
               /\ calls[r][1].name = req[r].body.params.name
               /\ calls[r][1].args = IF Falsy(req[r].body.params.arguments)
                                     THEN EmptyObject
                                     ELSE req[r].body.params.arguments

\* a call without arguments succeeded: handleToolCall got {}, and its value
\* is the result of the response
C8_Witness ==
    \E r \in Slots :
        /\ Called(r)
        /\ req[r].body.params.arguments = Undefined
        /\ calls[r] = <<[name |-> Str("X"), args |-> EmptyObject]>>
        /\ outcome[r] = [kind |-> "return", value |-> Obj("{content:[r1]}")]
        /\ res[r].body.result = Obj("{content:[r1]}")

KnownMethods == {Str("initialize"), Str("tools/list"), Str("tools/call")}

\* C9: a valid envelope whose method is none of initialize, tools/list and
\* tools/call (or is absent) is answered with code -32601 and the id of the
\* request, without any call of handleToolCall; a valid envelope with one of
\* the three methods is never answered -32601, whatever was handled before.
C9_MethodNotFound ==
    \A r \in Slots :
        (Handled(r) /\ ValidTag(req[r].body)) =>
            /\ req[r].body.method \notin KnownMethods =>
                   /\ res[r].status = 200
                   /\ res[r].body.error.code = -32601
                   /\ res[r].body.result = Undefined
                   /\ res[r].body.id = req[r].body.id
                   /\ calls[r] = <<>>
                   /\ outcome[r] = NoOutcome
            /\ req[r].body.method \in KnownMethods => res[r].body.error.code # -32601

\* a request without method, and one for "Initialize", were answered -32601
C9_Witness ==
    \E r \in Slots :
        /\ Handled(r)
        /\ ValidTag(req[r].body)
        /\ req[r].body.method = Undefined
        /\ req[r].body.id = Num("0")
        /\ res[r].body.error.code = -32601
        /\ res[r].body.id = Num("0")

-----------------------------------------------------------------------------
(* GET /sse: what the claims speak of *)

Count(seq, x) == Cardinality({i \in 1..Len(seq) : seq[i] = x})

\* the steps a stream connection may take: none is the slot before the
\* request, after a refusal by the gate, and after the connection is gone
StreamSteps ==
    {<<"none", "Opening">>, <<"Opening", "Open">>, <<"Opening", "none">>,
     <<"Open", "Closed">>, <<"Closed", "none">>}

StreamInv ==
    \A r \in Slots :
        /\ StreamState(r) = "Opening" => (events[r] = <<>> /\ timer[r] = "none")
        /\ StreamState(r) \in {"Open", "Closed"} =>
               /\ Count(events[r], "connection") = 1
               /\ events[r][1] = "connection"
               /\ \A i \in 2..Len(events[r]) : events[r][i] = "keepalive"
        /\ StreamState(r) = "Open" => timer[r] = "active"
        /\ StreamState(r) = "Closed" => timer[r] = "cleared"
        /\ timer[r] = "active" => StreamState(r) = "Open"

StreamStep ==
    \A r \in Slots :
        /\ StreamState(r)' # StreamState(r) => <<StreamState(r), StreamState(r)'>> \in StreamSteps
        /\ (StreamState(r) = "Closed" /\ StreamState(r)' = "Closed") =>
               (events'[r] = events[r] /\ timer'[r] = "cleared")
        /\ (StreamState(r) = "Open" /\ StreamState(r)' \in {"Open", "Closed"}) =>
               IsPrefix(events[r], events'[r])

\* C10: a stream connection emits exactly one connection event, before any
\* keep-alive; once the connection is closed its timer is cancelled and nothing
\* more is written on it; it goes from Opening to Open to Closed only, and
\* leaves Closed only by ceasing to exist.
C10_StreamLifecycle == [](StreamInv) /\ [][StreamStep]_vars

\* a connection was closed after its connection event and two keep-alives
C10_Witness ==
    \E r \in Slots :
        /\ StreamState(r) = "Closed"
        /\ events[r] = <<"connection", "keepalive", "keepalive">>
        /\ timer[r] = "cleared"

\* what a stream connection owns
Stream(r) == <<StreamState(r), events[r], timer[r]>>

\* every connection that is open has its own running timer, and its next
\* keep-alive can fire as soon as no callback is running
OwnTimer ==
    \A r \in Slots :
        StreamState(r) = "Open" =>
            /\ timer[r] = "active"
            /\ (LoopFree /\ Len(events[r]) <= MaxTicks) => ENABLED KeepAlive(r)

\* a step touches one connection at most; a close cancels the timer of the
\* connection that closed and no other; a new connection starts from nothing
OwnStep ==
    \A r \in Slots :
        /\ Stream(r)' # Stream(r) => \A s \in Slots \ {r} : Stream(s)' = Stream(s)
        /\ (timer[r] = "active" /\ timer'[r] # "active") =>
               (StreamState(r) = "Open" /\ StreamState(r)' = "Closed")
        /\ (StreamState(r) = "none" /\ StreamState(r)' = "Opening") =>
               (events'[r] = <<>> /\ timer'[r] = "none")

\* C11: with several stream connections open, each keep-alive timer belongs
\* to one connection: closing a connection cancels its own timer only, the
\* connections still open keep their timers and their keep-alives, and a
\* client that connects again gets a new connection, with its own connection
\* event and timer.
C11_TimerPerConnection == [](OwnTimer) /\ [][OwnStep]_vars

\* one connection was closed before any keep-alive, and the other, which
\* arrived first, is open and went on to receive its keep-alives
C11_Witness ==
    \E r, s \in Slots :
        /\ r # s
        /\ arrival = <<s, r>>
        /\ StreamState(r) = "Closed"
        /\ events[r] = <<"connection">>
        /\ timer[r] = "cleared"
        /\ StreamState(s) = "Open"
        /\ events[s] = <<"connection", "keepalive", "keepalive">>
        /\ timer[s] = "active"

-----------------------------------------------------------------------------
(* Requests side by side: what the claims speak of *)

\* the request of slot r is a tools/call whose call is in progress
InFlight(r) == pc[r] = "await" /\ Len(calls[r]) = 1

\* nothing holds a request back while another awaits its call: it is received,
\* its handler runs and starts its own call, and each call in progress may
\* settle, whatever the order in which the requests arrived
NotSerialized ==
    \A r, s \in Slots :
        (r # s /\ InFlight(r)) =>
            /\ (LoopFree /\ pc[s] = "idle") =>
                   \A q \in ConcRequests : ENABLED Receive(s, q)
            /\ pc[s] = "handler" => ENABLED McpHandler(s)
            /\ (LoopFree /\ InFlight(s)) =>
                   \A o \in ConcOutcomes :
                       ENABLED CollaboratorSettles(r, o) /\ ENABLED CollaboratorSettles(s, o)

\* C12: calls of handleToolCall are not serialized: two tools/call requests
\* can await their calls at the same time, and their responses can come in
\* either order.
C12_NotSerialized == NotSerialized

\* two calls of the same tool were in progress together, and the request that
\* arrived last was answered first
C12_Witness ==
    \E r, s \in Slots :
        /\ arrival = <<r, s>>
        /\ InFlight(r)
        /\ calls[r][1].name = Str("X")
        /\ calls[s] = <<[name |-> Str("X"), args |-> Obj("{q:1}")]>>
        /\ pc[s] = "done"
        /\ sent[s] = 1
        /\ outcome[s].kind = "return"

\* what a request to POST /mcp holds on the server
Exchange(r) == <<pc[r], calls[r], outcome[r], res[r], sent[r]>>

GoneInv ==
    \A r \in Slots :
        (client[r] = "gone" /\ req[r].path = "/mcp") =>
            /\ pc[r] \in {"await", "settled", "done"}
            /\ Len(calls[r]) = 1
            /\ (pc[r] = "await" /\ LoopFree) =>
                   \A o \in ConcOutcomes : ENABLED CollaboratorSettles(r, o)
            /\ pc[r] = "settled" => ENABLED McpContinue(r)
            /\ pc[r] = "done" => (outcome[r] # NoOutcome /\ sent[r] = 1)

GoneStep ==
    \A r \in Slots :
        (client[r] = "connected" /\ client'[r] = "gone") =>
            /\ req[r].path = "/mcp" => Exchange(r)' = Exchange(r)
            /\ req[r].path = "/sse" =>
                   /\ StreamState(r) = "Open"
                   /\ StreamState(r)' = "Closed"
                   /\ timer'[r] = "cleared"

\* C13: a client that goes away while its tools/call awaits handleToolCall
\* does not abort the call: the call settles and the handler finishes as for
\* any request; only a stream connection is torn down in the step of the
\* disconnect.
C13_DisconnectDoesNotAbort == [](GoneInv) /\ [][GoneStep]_vars

\* the client went away during the call, the call returned and the handler
\* answered
C13_Witness ==
    \E r \in Slots :
        /\ client[r] = "gone"
        /\ req[r].path = "/mcp"
        /\ pc[r] = "done"
        /\ outcome[r] = [kind |-> "return", value |-> Obj("{content:[r1]}")]
        /\ res[r].body.result = Obj("{content:[r1]}")

-----------------------------------------------------------------------------
(* The order of the credentials: what the claim speaks of *)

\* the gate decided on the request of slot r by the candidate c alone
DecidedBy(r, c) ==
    /\ PassedGate(r) <=> c = MCP_API_KEY
    /\ c # MCP_API_KEY => Denied(r, 403, -32003)

\* C14: the gate takes the credential from the Authorization header, then the
\* X-API-Key header, then the apiKey query parameter: the first of them that
\* is not empty decides alone, whatever the later ones hold.
C14_Precedence ==
    \A r \in Slots :
        (Configured /\ AuthDone(r)) =>
            LET c == Candidates(req[r]) IN
            /\ NonEmpty(c[1]) => DecidedBy(r, c[1])
            /\ (~NonEmpty(c[1]) /\ NonEmpty(c[2])) => DecidedBy(r, c[2])
            /\ (~NonEmpty(c[1]) /\ ~NonEmpty(c[2]) /\ NonEmpty(c[3])) => DecidedBy(r, c[3])

\* a wrong Authorization credential was refused although both later places
\* held the secret
C14_Witness ==
    \E r \in Slots :
        /\ Configured
        /\ req[r].authorization = Str("Bearer " \o Wrong)
        /\ req[r].xApiKey = Str(Secret)
        /\ req[r].apiKey = Str(Secret)
        /\ Denied(r, 403, -32003)

-----------------------------------------------------------------------------
(* OPTIONS: what the claim speaks of *)

Preflight(r) == req[r].verb = "OPTIONS" /\ pc[r] = "done"

\* the answer to OPTIONS but for what its body holds
ShortCircuited(r) ==
    /\ res[r].status = 200
    /\ res[r].type # "json"
    /\ res[r].body = NoBody
    /\ sent[r] = 1
    /\ trace[r] = <<"cors">>
    /\ calls[r] = <<>>
    /\ events[r] = <<>>
    /\ timer[r] = "none"

\* C15 as stated: an OPTIONS request to any path is answered 200 with no
\* JSON-RPC envelope and no body, whatever the secret and the credentials, and
\* neither the gate nor a route handler nor the stream runs.
C15_PreflightAsStated ==
    \A r \in Slots :
        Preflight(r) => (ShortCircuited(r) /\ res[r].text = "")

\* C15: an OPTIONS request to any path is answered 200 with no JSON-RPC
\* envelope, its body being the status text "OK" alone, whatever the secret
\* and the credentials, and neither the gate nor a route handler nor the
\* stream runs.
C15_Preflight ==
    /\ \A r \in Slots : Preflight(r) => (ShortCircuited(r) /\ res[r].text = "OK")
    /\ \A r \in Slots : (req[r].verb = "OPTIONS" /\ pc[r] # "done") => pc[r] = "cors"

\* a secret is configured and an OPTIONS request to a path with no route, with
\* no credential at all, was answered
C15_Witness ==
    \E r \in Slots :
        /\ Configured
        /\ Preflight(r)
        /\ req[r].path = "/other"
        /\ Credential(req[r]) = Undefined
        /\ res[r].status = 200

-----------------------------------------------------------------------------
(* initialize: what the claim speaks of *)

Initialize(r) ==
    Handled(r) /\ ValidTag(req[r].body) /\ req[r].body.method = Str("initialize")

\* C16: every valid envelope with method initialize is answered with the same
\* protocolVersion, capabilities and serverInfo, whatever its params and
\* whatever was handled before; the response carries the id of the request
\* and handleToolCall is not called.
C16_Initialize ==
    \A r \in Slots :
        Initialize(r) =>
            /\ res[r].status = 200
            /\ res[r].body.result =
                   Obj("{protocolVersion:2024-11-05,capabilities:{tools:{}},serverInfo:{name:readwise-mcp-enhanced,version:1.0.0}}")
            /\ res[r].body.error = NoError
            /\ res[r].body.id = req[r].body.id
            /\ trace[r] = <<"cors", "auth", "validate", "route">>
            /\ calls[r] = <<>>
            /\ outcome[r] = NoOutcome

\* an initialize request with params of a tool call and the id "a" was
\* answered
C16_Witness ==
    \E r \in Slots :
        /\ Initialize(r)
        /\ req[r].body.params = Params(Str("X"), Obj("{q:1}"))
        /\ req[r].body.id = Str("a")
        /\ res[r].body.id = Str("a")
        /\ HasResult(res[r].body)

-----------------------------------------------------------------------------
(* One response per request, its own: what the claim speaks of *)

\* the response of slot r carries what its own call of handleToolCall gave
OwnOutcome(r) ==
    /\ outcome[r].kind = "return" =>
           /\ res[r].body.result = outcome[r].value
           /\ res[r].body.error = NoError
    /\ outcome[r].kind = "throw" =>
           /\ res[r].body.result = Undefined
           /\ res[r].body.error.code = -32603
           /\ res[r].body.error.data = ErrorData(outcome[r].value).value
    /\ outcome[r].kind = "none" =>
           \A o \in ConcOutcomes :
               res[r].body.result # o.value /\ res[r].body.error.code # -32603

\* one response, once the request is over and not before
OneResponse(r) ==
    /\ sent[r] <= 1
    /\ pc[r] = "done" <=> sent[r] = 1
    /\ sent[r] = 0 <=> res[r] = NoResponse

\* a step answers one request at most, and an answer never changes
OwnResponseStep ==
    /\ \A r, s \in Slots : (res'[r] # res[r] /\ res'[s] # res[s]) => r = s
    /\ \A r \in Slots : (sent[r] = 1 /\ pc'[r] = "done") => res'[r] = res[r]

\* C17 as stated: whatever the interleaving, every request to POST /mcp gets
\* one response, with the id of its own request and the outcome of its own
\* call of handleToolCall.
C17_OwnResponseAsStated ==
    \A r \in Slots :
        /\ OneResponse(r)
        /\ pc[r] = "done" => (res[r].body.id = req[r].body.id /\ OwnOutcome(r))

\* the id the code answers with
OwnId(r) ==
    IF Reached(r, "route") THEN res[r].body.id = req[r].body.id
    ELSE IF Reached(r, "validate") THEN res[r].body.id = Or(req[r].body.id, Null)
    ELSE res[r].body.id = Null

\* C17: whatever the interleaving, every request to POST /mcp gets one
\* response; the router and the bridge answer with the id of the own request,
\* the gate with id null, the validator with the own id or null for a falsy
\* one; a tools/call is answered with the outcome of its own call of
\* handleToolCall, and no step answers two requests.
C17_OwnResponse ==
    /\ [](\A r \in Slots : OneResponse(r) /\ (pc[r] = "done" => (OwnId(r) /\ OwnOutcome(r))))
    /\ [][OwnResponseStep]_vars

\* two calls of the same tool, the later one settled first with another
\* result, and each request was answered with its id and its result
C17_Witness ==
    \E r, s \in Slots :
        /\ arrival = <<r, s>>
        /\ calls[r] = calls[s]
        /\ req[r].body.id = Num("1") /\ req[s].body.id = Num("2")
        /\ outcome[r].value = Obj("{content:[r2]}")
        /\ outcome[s].value = Obj("{content:[r1]}")
        /\ res[r].body = [jsonrpc |-> Str("2.0"), id |-> Num("1"),
                          result |-> Obj("{content:[r2]}"), error |-> NoError]
        /\ res[s].body = [jsonrpc |-> Str("2.0"), id |-> Num("2"),
                          result |-> Obj("{content:[r1]}"), error |-> NoError]

-----------------------------------------------------------------------------
(* Every request is answered: what the claim speaks of *)

\* the request is allowed by the gate and its handler awaits handleToolCall
ReachesBridge(q) ==
    apiKeyAuthResult(MCP_API_KEY, q) = NoResponse /\ McpSync(q.body).await

\* C18: every request to POST /mcp is answered in the end provided its call
\* of handleToolCall, if it makes one, settles; a request that makes no call
\* is answered and a request that makes one starts it without waiting for any
\* other request, so a call that never settles holds back its own request only.
C18_EventuallyAnswered ==
    \A r \in Slots :
        /\ (pc[r] = "cors" /\ ~ReachesBridge(req[r])) ~> pc[r] = "done"
        /\ (pc[r] = "cors" /\ ReachesBridge(req[r])) ~> pc[r] = "await"
        /\ pc[r] = "settled" ~> pc[r] = "done"
        /\ (pc[r] = "await" ~> pc[r] = "settled") => (pc[r] = "cors" ~> pc[r] = "done")

\* an initialize request that arrived during the call of another request was
\* answered while that call is still in progress
C18_Witness ==
    \E r, s \in Slots :
        /\ arrival = <<r, s>>
        /\ InFlight(r)
        /\ req[s].body.method = Str("initialize")
        /\ pc[s] = "done"
        /\ HasResult(res[s].body)

-----------------------------------------------------------------------------
(* GET /sse behind the gate: what the claim speaks of *)

SseRequest(r) == req[r].verb = "GET" /\ req[r].path = "/sse"
\* something of a stream exists for slot r
Streaming(r) ==
    \/ events[r] # <<>>
    \/ timer[r] # "none"
    \/ Reached(r, "stream")
    \/ res[r].type = "event-stream"

\* C19: with a secret configured, a request to GET /sse that the gate does
\* not allow opens no stream: no connection event, no keep-alive timer, and
\* the 401 or 403 error envelope as its answer; a stream and its timer exist
\* only for a request the gate allowed.
C19_NoStreamWhenDenied ==
    \A r \in Slots :
        (Configured /\ SseRequest(r)) =>
            /\ (AuthDone(r) /\ Credential(req[r]) # MCP_API_KEY) =>
                   /\ Denied(r, 401, -32001) \/ Denied(r, 403, -32003)
                   /\ ~Streaming(r)
                   /\ ~ENABLED SseHandler(r)
                   /\ ~ENABLED KeepAlive(r)
            /\ Streaming(r) => (PassedGate(r) /\ Credential(req[r]) = MCP_API_KEY)

\* a connection with a wrong key in the query was refused
C19_Witness ==
    \E r \in Slots :
        /\ Configured
        /\ SseRequest(r)
        /\ req[r].authorization = Undefined
        /\ req[r].xApiKey = Undefined
        /\ req[r].apiKey = Str(Wrong)
        /\ Denied(r, 403, -32003)
        /\ timer[r] = "none"

====
